---- MODULE Spec2Model ----
(***************************************************************************)
(* Lattice Boltzmann (D2Q9) flow around an obstacle:                       *)
(* src/Lattice_boltzmann_FlowAroundCylinder.py as a state machine.         *)
(*                                                                         *)
(* Real numbers are exact rationals <<n, d>> in lowest terms with d > 0.   *)
(* A division by zero inside a numpy array does not raise: it yields inf   *)
(* or nan, carried here as <<1,0>>, <<-1,0>> (infinities) and <<0,0>>      *)
(* (nan). A division by zero between Python scalars (lines 52-53) raises   *)
(* ZeroDivisionError and ends the program.                                 *)
(* saveDir tells whether the directory Re_test next to the source file,    *)
(* into which line 158 saves the frames and which the program never        *)
(* creates, exists.                                                        *)
(* Floating-point rounding is not modelled: every statement below is about *)
(* the arithmetic the code performs, carried out exactly.                  *)
(***************************************************************************)
EXTENDS Integers, Sequences, FiniteSets, TLC

VARIABLES pc, time, r, nulb, omega, obstacle, vel, fin, rho, u, feq, fout, frames,
          saveDir

vars == <<pc, time, r, nulb, omega, obstacle, vel, fin, rho, u, feq, fout, frames,
          saveDir>>

----------------------------------------------------------------------------
(* Scaled-down flow definition. The source fixes maxIter = 30000,          *)
(* nx, ny = 420, 180 and r = ny//9 = 20; here the grid and the iteration   *)
(* count are small, and the obstacle radius r is chosen in the initial     *)
(* state from 0..MaxR, which contains ny//9 = 0. Re and uLB are the        *)
(* source's.                                                               *)

\* Total number of time iterations is maxIter + 1. Next to the edge of an
\* obstacle the exact rationals of a third iteration no longer fit TLC's
\* 32-bit integers; grids without such an edge run four iterations.
maxIter == 1
\* Number of lattice nodes. With nx = 14 the obstacle of r = 1 covers the
\* columns 0..9 and that of r = 2 the columns 0..12, so that both obstacle
\* and fluid cells exist; ny in {2, 3} keeps sin(y/ly*2*pi) rational.
nx == 14
ny == 2
\* Largest obstacle radius tried (the source derives r from ny).
MaxR == 4
\* Reynolds number.
Re == 220
\* Visualization cadence.
FrameEvery == 100

ly == ny - 1
cx == nx \div 4
cy == ny \div 2

Dirs == 0..8
Xs == 0..(nx - 1)
Ys == 0..(ny - 1)

----------------------------------------------------------------------------
(* Exact rational arithmetic with numpy's non-finite values.               *)

Abs(n) == IF n < 0 THEN -n ELSE n

Sgn(n) == IF n < 0 THEN -1 ELSE IF n > 0 THEN 1 ELSE 0

RECURSIVE GCD(_, _)
GCD(a, b) == IF b = 0 THEN a ELSE GCD(b, a % b)

Norm(n, d) ==
    IF d = 0 THEN <<Sgn(n), 0>>
    ELSE LET g == GCD(Abs(n), Abs(d))
             s == IF d < 0 THEN -1 ELSE 1
         IN  <<s * (n \div g), s * (d \div g)>>

R(n) == <<n, 1>>

Frac(n, d) == Norm(n, d)

IsFinite(a) == a[2] # 0

RNeg(a) == <<-a[1], a[2]>>

RAdd(a, b) ==
    IF a[2] = 0 \/ b[2] = 0
    THEN IF a[2] = 0 /\ b[2] = 0
         THEN (IF a[1] = b[1] THEN a ELSE <<0, 0>>)
         ELSE (IF a[2] = 0 THEN a ELSE b)
    ELSE LET g == GCD(a[2], b[2])
         IN  Norm(a[1] * (b[2] \div g) + b[1] * (a[2] \div g), (a[2] \div g) * b[2])

RSub(a, b) == RAdd(a, RNeg(b))

RMul(a, b) ==
    IF a[2] = 0 \/ b[2] = 0
    THEN <<Sgn(a[1]) * Sgn(b[1]), 0>>
    ELSE LET g1 == GCD(Abs(a[1]), b[2])
             g2 == GCD(Abs(b[1]), a[2])
         IN  <<(a[1] \div g1) * (b[1] \div g2), (a[2] \div g2) * (b[2] \div g1)>>

RInv(a) ==
    IF a[2] = 0 THEN (IF a[1] = 0 THEN <<0, 0>> ELSE <<0, 1>>)
    ELSE IF a[1] = 0 THEN <<1, 0>>
    ELSE IF a[1] < 0 THEN <<-a[2], -a[1]>>
    ELSE <<a[2], a[1]>>

RDiv(a, b) == RMul(a, RInv(b))

RSqr(a) == RMul(a, a)

\* a < b; a comparison with nan is false.
RLess(a, b) ==
    IF a = <<0, 0>> \/ b = <<0, 0>> THEN FALSE
    ELSE IF a[2] = 0 THEN (a[1] < 0 /\ b # a)
    ELSE IF b[2] = 0 THEN b[1] > 0
    ELSE a[1] * b[2] < b[1] * a[2]

RECURSIVE RSum(_, _)
\* Sum of f[k] for k in S, accumulated in index order.
RSum(f, S) ==
    IF S = {} THEN R(0)
    ELSE LET m == CHOOSE k \in S : \A j \in S : j <= k
         IN  RAdd(RSum(f, S \ {m}), f[m])

----------------------------------------------------------------------------
(* Lattice constants.                                                      *)

vT == << <<1, 1>>, <<1, 0>>, <<1, -1>>, <<0, 1>>, <<0, 0>>,
         <<0, -1>>, <<-1, 1>>, <<-1, 0>>, <<-1, -1>> >>

v == [i \in Dirs |-> [c \in 0..1 |-> vT[i + 1][c + 1]]]

tT == << Frac(1, 36), Frac(1, 9), Frac(1, 36), Frac(1, 9), Frac(4, 9),
         Frac(1, 9), Frac(1, 36), Frac(1, 9), Frac(1, 36) >>

t == [i \in Dirs |-> tT[i + 1]]

col1 == {0, 1, 2}
col2 == {3, 4, 5}
col3 == {6, 7, 8}

----------------------------------------------------------------------------
(* Flow definition.                                                        *)

\* Velocity in lattice units: 0.04.
uLB == Frac(1, 25)

\* The outcome of a Python scalar division by zero.
ZeroDivisionError == <<"ZeroDivisionError">>

Raised(a) == Len(a) = 1

\* a / b between Python floats: a zero divisor raises, whatever a is.
PyDiv(a, b) ==
    IF Raised(a) \/ Raised(b) THEN ZeroDivisionError
    ELSE IF b[1] = 0 /\ b[2] # 0 THEN ZeroDivisionError
    ELSE RDiv(a, b)

\* uLB*r/Re
nulbOf(ulb, rad, re) == PyDiv(RMul(ulb, R(rad)), R(re))

\* 1 / (3*nulb+0.5)
omegaOf(ulb, rad, re) ==
    LET nu == nulbOf(ulb, rad, re)
    IN  IF Raised(nu) THEN ZeroDivisionError
        ELSE PyDiv(R(1), RAdd(RMul(R(3), nu), Frac(1, 2)))

\* Value of a field that has not been assigned yet.
Null == <<>>

----------------------------------------------------------------------------
(* Function definitions.                                                   *)

\* Mutant: the second velocity component accumulated with v[i,0].
macroscopicSameAxis(f) ==
    LET rho0 == [x \in Xs |-> [y \in Ys |-> RSum([i \in Dirs |-> f[i][x][y]], Dirs)]]
        u0 == [c \in 0..1 |-> [x \in Xs |-> [y \in Ys |->
                 RDiv(RSum([i \in Dirs |-> RMul(R(v[i][0]), f[i][x][y])], Dirs),
                      rho0[x][y])]]]
    IN  [rho |-> rho0, u |-> u0]

macroscopic(f) ==
    LET rho0 == [x \in Xs |-> [y \in Ys |-> RSum([i \in Dirs |-> f[i][x][y]], Dirs)]]
        u0 == [c \in 0..1 |-> [x \in Xs |-> [y \in Ys |->
                 RDiv(RSum([i \in Dirs |-> RMul(R(v[i][c]), f[i][x][y])], Dirs),
                      rho0[x][y])]]]
    IN  [rho |-> rho0, u |-> u0]

\* Mutant: the factor 0.5 of the quadratic term left out.
equilibriumCellNoHalf(i, rh, ux, uy) ==
    LET usqr == RMul(Frac(3, 2), RAdd(RSqr(ux), RSqr(uy)))
        cu == RMul(R(3), RAdd(RMul(R(v[i][0]), ux), RMul(R(v[i][1]), uy)))
    IN  RMul(RMul(rh, t[i]), RSub(RAdd(RAdd(R(1), cu), RSqr(cu)), usqr))

equilibriumCell(i, rh, ux, uy) ==
    LET usqr == RMul(Frac(3, 2), RAdd(RSqr(ux), RSqr(uy)))
        cu == RMul(R(3), RAdd(RMul(R(v[i][0]), ux), RMul(R(v[i][1]), uy)))
    IN  RMul(RMul(rh, t[i]),
             RSub(RAdd(RAdd(R(1), cu), RMul(Frac(1, 2), RSqr(cu))), usqr))

equilibrium(rh, uu) ==
    [i \in Dirs |-> [x \in Xs |-> [y \in Ys |->
        equilibriumCell(i, rh[x][y], uu[0][x][y], uu[1][x][y])]]]

\* Scalar density 1 broadcast over the grid, as in equilibrium(1, vel).
Ones == [x \in Xs |-> [y \in Ys |-> R(1)]]

\* (x-cx)**2/8 + (cy-y)**2/3 < r*(11/2)
obstacle_fun(x, y, rad) ==
    RLess(RAdd(Frac((x - cx) * (x - cx), 8), Frac((cy - y) * (cy - y), 3)),
          RMul(R(rad), Frac(11, 2)))

\* sin(2*pi*q) for q in [0, 1], at the arguments where the sine is rational
\* (multiples of a twelfth of a turn that are not odd multiples of a sixth).
\* At every other argument the sine is irrational and has no value here.
SinTurn(q) ==
    CASE q \in {R(0), Frac(1, 2), R(1)} -> R(0)
      [] q \in {Frac(1, 12), Frac(5, 12)} -> Frac(1, 2)
      [] q = Frac(1, 4) -> R(1)
      [] q \in {Frac(7, 12), Frac(11, 12)} -> Frac(-1, 2)
      [] q = Frac(3, 4) -> R(-1)

\* sin(y/ly*2*pi) for 0 <= y <= ly; y/ly is nan when ly = 0.
SinProfile(y) ==
    LET q == RDiv(R(y), R(ly))
    IN  IF ~IsFinite(q) THEN <<0, 0>> ELSE SinTurn(q)

\* (1-d) * uLB * (1 + 1e-4*sin(y/ly*2*pi))
inivel(d, x, y, ulb) ==
    RMul(RMul(R(1 - d), ulb), RAdd(R(1), RMul(Frac(1, 10000), SinProfile(y))))

----------------------------------------------------------------------------
(* Phases of one iteration of the main time loop.                          *)

\* Python's negative index on the first grid axis.
Col(k) == IF k < 0 THEN nx + k ELSE k

\* Mutant: only two of the three leftward directions copied.
outflowTwoDirs(f) ==
    [i \in Dirs |-> [x \in Xs |-> [y \in Ys |->
        IF i \in {7, 8} /\ x = Col(-1) THEN f[i][Col(-2)][y] ELSE f[i][x][y]]]]

outflow(f) ==
    [i \in Dirs |-> [x \in Xs |-> [y \in Ys |->
        IF i \in col3 /\ x = Col(-1) THEN f[i][Col(-2)][y] ELSE f[i][x][y]]]]

inflowVelocity(uu, inlet) ==
    [c \in 0..1 |-> [x \in Xs |-> [y \in Ys |->
        IF x = 0 THEN inlet[c][0][y] ELSE uu[c][x][y]]]]

\* Mutant: the leftward populations counted once instead of twice.
inflowDensityOnce(rh, uu, f) ==
    [x \in Xs |-> [y \in Ys |->
        IF x = 0
        THEN RMul(RDiv(R(1), RSub(R(1), uu[0][0][y])),
                  RAdd(RSum([i \in Dirs |-> f[i][0][y]], col2),
                       RSum([i \in Dirs |-> f[i][0][y]], col3)))
        ELSE rh[x][y]]]

inflowDensity(rh, uu, f) ==
    [x \in Xs |-> [y \in Ys |->
        IF x = 0
        THEN RMul(RDiv(R(1), RSub(R(1), uu[0][0][y])),
                  RAdd(RSum([i \in Dirs |-> f[i][0][y]], col2),
                       RMul(R(2), RSum([i \in Dirs |-> f[i][0][y]], col3))))
        ELSE rh[x][y]]]

inflowCorrection(f, fe) ==
    [i \in Dirs |-> [x \in Xs |-> [y \in Ys |->
        IF i \in col1 /\ x = 0
        THEN RSub(RAdd(fe[i][0][y], f[8 - i][0][y]), fe[8 - i][0][y])
        ELSE f[i][x][y]]]]

collision(f, fe, om) ==
    [i \in Dirs |-> [x \in Xs |-> [y \in Ys |->
        RSub(f[i][x][y], RMul(om, RSub(f[i][x][y], fe[i][x][y])))]]]

\* Mutant: the reflection read from the buffer being written.
bounceOneInPlace(fo, f, mask, i) ==
    [fo EXCEPT ![i] = [x \in Xs |-> [y \in Ys |->
        IF mask[x][y] THEN fo[8 - i][x][y] ELSE fo[i][x][y]]]]

\* fout[i, obstacle] = fin[8-i, obstacle] for one direction i.
bounceOne(fo, f, mask, i) ==
    [fo EXCEPT ![i] = [x \in Xs |-> [y \in Ys |->
        IF mask[x][y] THEN f[8 - i][x][y] ELSE fo[i][x][y]]]]

RECURSIVE bounceSeq(_, _, _, _)
\* The directions of order, processed first to last.
bounceSeq(fo, f, mask, order) ==
    IF order = <<>> THEN fo
    ELSE bounceSeq(bounceOne(fo, f, mask, Head(order)), f, mask, Tail(order))

Range9 == <<0, 1, 2, 3, 4, 5, 6, 7, 8>>

bounceBack(fo, f, mask) == bounceSeq(fo, f, mask, Range9)

\* Mutant: a shift without wrap-around (the edge value is repeated).
rollNoWrap(a, shift, axis) ==
    LET clip(k, n) == IF k < 0 THEN 0 ELSE IF k > n - 1 THEN n - 1 ELSE k
    IN  IF axis = 0
        THEN [x \in Xs |-> [y \in Ys |-> a[clip(x - shift, nx)][y]]]
        ELSE [x \in Xs |-> [y \in Ys |-> a[x][clip(y - shift, ny)]]]

\* numpy.roll of a 2D slice along one axis.
roll(a, shift, axis) ==
    IF axis = 0
    THEN [x \in Xs |-> [y \in Ys |-> a[(x - shift) % nx][y]]]
    ELSE [x \in Xs |-> [y \in Ys |-> a[x][(y - shift) % ny]]]

\* Mutant: every slice shifted against its velocity.
streamingBackwards(fo) == [i \in Dirs |-> roll(roll(fo[i], -v[i][0], 0), -v[i][1], 1)]

streaming(fo) == [i \in Dirs |-> roll(roll(fo[i], v[i][0], 0), v[i][1], 1)]

\* Whether k is a value of range(maxIter+1).
inRange(k) == 0 <= k /\ k < maxIter + 1

\* Mutant: the obstacle bounce-back placed before the collision.
nextPhaseBounceFirst(p) ==
    CASE p = "outflow" -> "macroscopic"
      [] p = "macroscopic" -> "inflow"
      [] p = "inflow" -> "equilibrium"
      [] p = "equilibrium" -> "inflowcorr"
      [] p = "inflowcorr" -> "bounceback"
      [] p = "bounceback" -> "collision"
      [] p = "collision" -> "streaming"
      [] p = "streaming" -> "visualize"

\* The phase that follows phase p inside one iteration of the loop body.
nextPhase(p) ==
    CASE p = "outflow" -> "macroscopic"
      [] p = "macroscopic" -> "inflow"
      [] p = "inflow" -> "equilibrium"
      [] p = "equilibrium" -> "inflowcorr"
      [] p = "inflowcorr" -> "collision"
      [] p = "collision" -> "bounceback"
      [] p = "bounceback" -> "streaming"
      [] p = "streaming" -> "visualize"

----------------------------------------------------------------------------
(* The program.                                                            *)

Init ==
    /\ pc = "flow"
    /\ time = 0
    /\ saveDir \in BOOLEAN
    /\ r \in 0..MaxR
    /\ nulb = Null
    /\ omega = Null
    /\ obstacle = Null
    /\ vel = Null
    /\ fin = Null
    /\ rho = Null
    /\ u = Null
    /\ feq = Null
    /\ fout = Null
    /\ frames = <<>>

\* Lines 46-53: viscosity and relaxation parameter; a ZeroDivisionError at
\* either line ends the program before any array exists.
FlowDefinition ==
    /\ pc = "flow"
    /\ LET nu == nulbOf(uLB, r, Re)
           om == omegaOf(uLB, r, Re)
       IN  IF Raised(om)
           THEN /\ nulb' = IF Raised(nu) THEN Null ELSE nu
                /\ omega' = Null
                /\ pc' = "raised"
           ELSE /\ nulb' = nu
                /\ omega' = om
                /\ pc' = "setup"
    /\ UNCHANGED <<time, r, obstacle, vel, fin, rho, u, feq, fout, frames, saveDir>>

\* Lines 106-116: obstacle mask, inlet profile, populations at equilibrium.
Setup ==
    /\ pc = "setup"
    /\ obstacle' = [x \in Xs |-> [y \in Ys |-> obstacle_fun(x, y, r)]]
    /\ LET inlet == [d \in 0..1 |-> [x \in Xs |-> [y \in Ys |-> inivel(d, x, y, uLB)]]]
       IN  /\ vel' = inlet
           /\ fin' = equilibrium(Ones, inlet)
    /\ pc' = IF inRange(0) THEN "outflow" ELSE "done"
    /\ UNCHANGED <<time, r, nulb, omega, rho, u, feq, fout, frames, saveDir>>

Outflow ==
    /\ pc = "outflow"
    /\ fin' = outflow(fin)
    /\ pc' = nextPhase(pc)
    /\ UNCHANGED <<time, r, nulb, omega, obstacle, vel, rho, u, feq, fout, frames, saveDir>>

Macroscopic ==
    /\ pc = "macroscopic"
    /\ LET m == macroscopic(fin)
       IN  /\ rho' = m.rho
           /\ u' = m.u
    /\ pc' = nextPhase(pc)
    /\ UNCHANGED <<time, r, nulb, omega, obstacle, vel, fin, feq, fout, frames, saveDir>>

Inflow ==
    /\ pc = "inflow"
    /\ LET u1 == inflowVelocity(u, vel)
       IN  /\ u' = u1
           /\ rho' = inflowDensity(rho, u1, fin)
    /\ pc' = nextPhase(pc)
    /\ UNCHANGED <<time, r, nulb, omega, obstacle, vel, fin, feq, fout, frames, saveDir>>

Equilibrium ==
    /\ pc = "equilibrium"
    /\ feq' = equilibrium(rho, u)
    /\ pc' = nextPhase(pc)
    /\ UNCHANGED <<time, r, nulb, omega, obstacle, vel, fin, rho, u, fout, frames, saveDir>>

InflowCorrection ==
    /\ pc = "inflowcorr"
    /\ fin' = inflowCorrection(fin, feq)
    /\ pc' = nextPhase(pc)
    /\ UNCHANGED <<time, r, nulb, omega, obstacle, vel, rho, u, feq, fout, frames, saveDir>>

Collision ==
    /\ pc = "collision"
    /\ fout' = collision(fin, feq, omega)
    /\ pc' = nextPhase(pc)
    /\ UNCHANGED <<time, r, nulb, omega, obstacle, vel, fin, rho, u, feq, frames, saveDir>>

BounceBack ==
    /\ pc = "bounceback"
    /\ fout' = bounceBack(fout, fin, obstacle)
    /\ pc' = nextPhase(pc)
    /\ UNCHANGED <<time, r, nulb, omega, obstacle, vel, fin, rho, u, feq, frames, saveDir>>

Streaming ==
    /\ pc = "streaming"
    /\ fin' = streaming(fout)
    /\ pc' = nextPhase(pc)
    /\ UNCHANGED <<time, r, nulb, omega, obstacle, vel, rho, u, feq, fout, frames, saveDir>>

\* Lines 151-158 and the loop head: a frame every 100th iteration, then the
\* next value of range(maxIter+1), or the end of the loop. savefig raises
\* when the directory of the frames is missing; nothing catches it.
Visualization ==
    /\ pc = "visualize"
    /\ IF time % FrameEvery = 0 /\ ~saveDir
       THEN /\ frames' = frames
            /\ time' = time
            /\ pc' = "raised"
       ELSE /\ frames' = IF time % FrameEvery = 0
                         THEN Append(frames, time \div FrameEvery) ELSE frames
            /\ IF inRange(time + 1)
               THEN time' = time + 1 /\ pc' = "outflow"
               ELSE time' = time /\ pc' = "done"
    /\ UNCHANGED <<r, nulb, omega, obstacle, vel, fin, rho, u, feq, fout, saveDir>>

Next ==
    \/ FlowDefinition
    \/ Setup
    \/ Outflow
    \/ Macroscopic
    \/ Inflow
    \/ Equilibrium
    \/ InflowCorrection
    \/ Collision
    \/ BounceBack
    \/ Streaming
    \/ Visualization

Spec == Init /\ [][Next]_vars

\* The program is one thread that executes statement after statement and is
\* never blocked: until it has ended, its position in the code advances.
Advance ==
    /\ pc \notin {"done", "raised"}
    /\ pc' \in {"setup", "raised", "outflow", "macroscopic", "inflow", "equilibrium", "inflowcorr",
                "collision", "bounceback", "streaming", "visualize", "done"}
    /\ time' \in {time, time + 1}
    /\ <<pc', time'>> # <<pc, time>>

FairSpec == Spec /\ WF_<<pc, time>>(Advance)

----------------------------------------------------------------------------
(* equilibrium applied to bounded inputs.                                  *)

MaxRhoNum == 3
MaxUNum == 2

EqRhoSet == {Frac(n, 2) : n \in 0..MaxRhoNum}

EqUSet == {Frac(n, 8) : n \in (-MaxUNum)..MaxUNum}

InitEq ==
    /\ pc = "eq_input"
    /\ time = 0
    /\ r = 0
    /\ saveDir = TRUE
    /\ nulb = Null
    /\ omega = Null
    /\ obstacle = Null
    /\ vel = Null
    /\ fin = Null
    /\ \E a \in EqRhoSet, b \in EqUSet, c \in EqUSet :
          /\ rho = [x \in Xs |-> [y \in Ys |-> a]]
          /\ u = [d \in 0..1 |-> [x \in Xs |-> [y \in Ys |->
                    IF (x + y + d) % 2 = 0 THEN b ELSE c]]]
    /\ feq = Null
    /\ fout = Null
    /\ frames = <<>>

EqApply ==
    /\ pc = "eq_input"
    /\ feq' = equilibrium(rho, u)
    /\ pc' = "eq_output"
    /\ UNCHANGED <<time, r, nulb, omega, obstacle, vel, fin, rho, u, fout, frames, saveDir>>

NextEq == EqApply

SpecEq == InitEq /\ [][NextEq]_vars

----------------------------------------------------------------------------
(* streaming applied to bounded post-collision fields: a background value  *)
(* everywhere and one marked population.                                   *)

MaxVal == 2

StreamVals == {Frac(n, 3) : n \in 0..MaxVal}

InitStream ==
    /\ pc = "streaming"
    /\ time = 0
    /\ r = 0
    /\ saveDir = TRUE
    /\ nulb = Null
    /\ omega = Null
    /\ obstacle = Null
    /\ vel = Null
    /\ fin = Null
    /\ rho = Null
    /\ u = Null
    /\ feq = Null
    /\ \E i0 \in Dirs, x0 \in Xs, y0 \in Ys, a \in StreamVals, b \in StreamVals :
          fout = [i \in Dirs |-> [x \in Xs |-> [y \in Ys |->
                    IF i = i0 /\ x = x0 /\ y = y0 THEN a ELSE b]]]
    /\ frames = <<>>

NextStream == Streaming

SpecStream == InitStream /\ [][NextStream]_vars

----------------------------------------------------------------------------
(* Moments of a population field.                                          *)

Sum9(f, x, y) == RSum([i \in Dirs |-> f[i][x][y]], Dirs)

Mom(f, c, x, y) == RSum([i \in Dirs |-> RMul(R(v[i][c]), f[i][x][y])], Dirs)

Total(f) == RSum([x \in Xs |-> RSum([y \in Ys |-> Sum9(f, x, y)], Ys)], Xs)

Interior == {x \in Xs : x # 0 /\ x # nx - 1}

omegaValid == RLess(R(0), omega) /\ RLess(omega, R(2))

----------------------------------------------------------------------------
(* C1: a relaxation parameter omega outside (0, 2), such as omega = 2, is  *)
(* rejected at setup: once such an omega is computed the run never leaves  *)
(* the setup state, so no iteration runs and no population is written.     *)
C1_RejectedAtSetup == (omega # Null /\ ~omegaValid) => (pc = "setup" /\ fin = Null)

----------------------------------------------------------------------------
PhaseOrder ==
    <<"outflow", "macroscopic", "inflow", "equilibrium", "inflowcorr",
      "collision", "bounceback", "streaming">>

PhaseIndex(p) == CHOOSE k \in 1..Len(PhaseOrder) : PhaseOrder[k] = p

C2_Step ==
    /\ pc = "flow" => pc' \in {"setup", "raised"}
    /\ pc = "setup" => pc' \in {"outflow", "done"}
    /\ (pc \in {PhaseOrder[k] : k \in 1..7}) =>
          (pc' = PhaseOrder[PhaseIndex(pc) + 1] /\ time' = time)
    /\ pc = "outflow" => UNCHANGED <<rho, u, feq, fout>>
    /\ pc = "macroscopic" => UNCHANGED <<fin, feq, fout>>
    /\ pc = "inflow" => UNCHANGED <<fin, feq, fout>>
    /\ pc = "equilibrium" => UNCHANGED <<fin, rho, u, fout>>
    /\ pc = "inflowcorr" => UNCHANGED <<rho, u, feq, fout>>
    /\ pc = "collision" => UNCHANGED <<fin, rho, u, feq>>
    /\ pc = "bounceback" => UNCHANGED <<fin, rho, u, feq>>
    /\ pc = "streaming" =>
          (pc' = "visualize" /\ time' = time /\ UNCHANGED <<rho, u, feq, fout>>)
    /\ pc = "visualize" =>
          /\ UNCHANGED <<fin, rho, u, feq, fout>>
          /\ pc' \in {"outflow", "done", "raised"}
          /\ pc' = "outflow" => time' = time + 1
    /\ pc' = "outflow" => pc \in {"setup", "visualize"}

(* C2: inside every iteration the phases run in the order outflow copy,    *)
(* macroscopic extraction, inflow velocity/density overwrite, equilibrium, *)
(* inflow population correction, collision, obstacle bounce-back,          *)
(* streaming, one step each, each writing only its own fields; and the     *)
(* populations written by the streaming of iteration k are untouched until *)
(* the outflow copy of iteration k+1 reads them.                           *)
C2_PhaseOrder == [][C2_Step]_vars

C2_Witness == pc = "outflow" /\ time = 1 /\ fin = streaming(fout) /\ fin # fout

----------------------------------------------------------------------------
C3_Step ==
    /\ time' # time => (pc = "visualize" /\ pc' = "outflow" /\ time' = time + 1)
    /\ pc' = "done" => (pc = "visualize" /\ time = maxIter)
    /\ pc' = "outflow" => (pc \in {"setup", "visualize"} /\ time' \in 0..maxIter)
    /\ pc = "visualize" => (pc' = "done" <=> time = maxIter)
    /\ pc \in {PhaseOrder[k] : k \in 1..8} \cup {"visualize"} =>
          pc' \in {PhaseOrder[k] : k \in 1..8} \cup {"visualize", "done"}

(* C3: from the initialized state (populations at equilibrium(1, inlet     *)
(* profile)) the loop runs the iterations 0, 1, ..., maxIter, one after    *)
(* the other, none skipped and none left early on any condition; the run   *)
(* always reaches the completed state, and enters it only from the end of  *)
(* iteration maxIter.                                                      *)
C3_RunsToBound ==
    /\ pc = "flow" /\ time = 0
    /\ [](pc = "outflow" /\ time = 0 => fin = equilibrium(Ones, vel))
    /\ [][C3_Step]_vars
    /\ <>(pc = "done")
    /\ [](pc = "done" => time = maxIter)

(* C3 for the runs in which every frame is saved (the directory of the     *)
(* frames exists): the loop runs all maxIter + 1 iterations and ends.      *)
C3_RunsToBoundWhenSaved ==
    /\ pc = "flow" /\ time = 0
    /\ [](pc = "outflow" /\ time = 0 => fin = equilibrium(Ones, vel))
    /\ [][saveDir => C3_Step]_vars
    /\ <>(pc = "done" \/ ~saveDir)
    /\ [](pc = "done" => time = maxIter)

----------------------------------------------------------------------------
Reverse9 == <<8, 7, 6, 5, 4, 3, 2, 1, 0>>

(* C4: after the bounce-back step, at every obstacle cell and for every    *)
(* direction i in 0..8 (the rest direction included) the post-collision    *)
(* population fout[i] is the pre-collision population fin[8-i] of the same *)
(* iteration, and processing the directions in the opposite order gives    *)
(* the same field.                                                         *)
C4_BounceBack ==
    pc = "streaming" =>
        /\ \A x \in Xs, y \in Ys : obstacle[x][y] =>
              \A i \in Dirs : fout[i][x][y] = fin[8 - i][x][y]
        /\ fout = bounceSeq(collision(fin, feq, omega), fin, obstacle, Reverse9)

C4_Witness ==
    /\ pc = "streaming"
    /\ time >= 1
    /\ \E x \in Xs, y \in Ys, i \in Dirs :
          /\ obstacle[x][y]
          /\ fin[8 - i][x][y] # fin[i][x][y]
          /\ fout[i][x][y] # collision(fin, feq, omega)[i][x][y]
    /\ \E x \in Xs, y \in Ys : ~obstacle[x][y]

----------------------------------------------------------------------------
(* C5: streaming conserves total mass: the sum of fin over all directions  *)
(* and cells after the step equals the sum of fout, and every fin[i,x,y]   *)
(* is fout[i, (x - v[i,0]) mod nx, (y - v[i,1]) mod ny].                   *)
C5_StreamingConservesMass ==
    pc = "visualize" =>
        /\ Total(fin) = Total(fout)
        /\ \A i \in Dirs, x \in Xs, y \in Ys :
              fin[i][x][y] = fout[i][(x - v[i][0]) % nx][(y - v[i][1]) % ny]

C5_Witness ==
    /\ pc = "visualize"
    /\ \E i \in Dirs, y \in Ys :
          /\ v[i][0] = 1
          /\ fout[i][nx - 1][y] # fout[i][0][y]
          /\ fin[i][0][(y + v[i][1]) % ny] = fout[i][nx - 1][y]

----------------------------------------------------------------------------
(* C6 as stated: after every completed iteration, at every cell outside    *)
(* column 0 and the last column, the rho and u computed in that iteration  *)
(* are the moments of the population field as it stands at the end of the  *)
(* iteration.                                                              *)
C6_MomentsAtEndOfIteration ==
    pc \in {"visualize", "done"} =>
        \A x \in Interior, y \in Ys :
            /\ rho[x][y] = Sum9(fin, x, y)
            /\ \A c \in 0..1 : RMul(rho[x][y], u[c][x][y]) = Mom(fin, c, x, y)

(* C6 as amended: from the macroscopic extraction until the streaming step *)
(* of the same iteration, at every cell outside column 0 and the last      *)
(* column, rho is the sum of the pre-collision populations and, where rho  *)
(* is finite and not zero, rho*u is their first moment.                    *)
C6_MomentsBeforeStreaming ==
    pc \in {"inflow", "equilibrium", "inflowcorr", "collision", "bounceback",
            "streaming"} =>
        \A x \in Interior, y \in Ys :
            /\ rho[x][y] = Sum9(fin, x, y)
            /\ (IsFinite(rho[x][y]) /\ rho[x][y] # R(0)) =>
                  \A c \in 0..1 : RMul(rho[x][y], u[c][x][y]) = Mom(fin, c, x, y)

C6_Witness ==
    /\ pc = "streaming"
    /\ time >= 1
    /\ \E x \in Interior, y \in Ys :
          /\ ~obstacle[x][y]
          /\ rho[x][y] # R(1)
          /\ u[0][x][y] # vel[0][x][y]
          /\ fout[1][x][y] # fin[1][x][y]
          /\ Sum9(streaming(fout), x, y) # rho[x][y]

----------------------------------------------------------------------------
(* C7: for every density and velocity of the bounded input sets, the nine  *)
(* equilibrium populations sum to rho and their first moments are rho*u_c; *)
(* rho = 1 with u = (0, 0) gives feq[i] = t[i], of density 1 and velocity  *)
(* (0, 0).                                                                 *)
C7_EquilibriumMoments ==
    pc = "eq_output" =>
        \A x \in Xs, y \in Ys :
            /\ Sum9(feq, x, y) = rho[x][y]
            /\ \A c \in 0..1 : Mom(feq, c, x, y) = RMul(rho[x][y], u[c][x][y])
            /\ (rho[x][y] = R(1) /\ u[0][x][y] = R(0) /\ u[1][x][y] = R(0)) =>
                  /\ \A i \in Dirs : feq[i][x][y] = t[i]
                  /\ macroscopic(feq).rho[x][y] = R(1)
                  /\ \A c \in 0..1 : macroscopic(feq).u[c][x][y] = R(0)

C7_Witness ==
    /\ pc = "eq_output"
    /\ \E x \in Xs, y \in Ys :
          /\ rho[x][y] = Frac(3, 2)
          /\ u[0][x][y] = Frac(1, 4)
          /\ u[1][x][y] = Frac(-1, 8)
          /\ feq[0][x][y] # feq[8][x][y]
          /\ feq[2][x][y] # feq[6][x][y]

----------------------------------------------------------------------------
C8_Step ==
    /\ pc = "inflow" =>
          \A y \in Ys :
              /\ \A c \in 0..1 : u'[c][0][y] = vel[c][0][y]
              /\ rho'[0][y] =
                    RDiv(RAdd(RSum([i \in Dirs |-> fin[i][0][y]], {3, 4, 5}),
                              RMul(R(2), RSum([i \in Dirs |-> fin[i][0][y]], {6, 7, 8}))),
                         RSub(R(1), u'[0][0][y]))
    /\ pc = "inflowcorr" =>
          \A y \in Ys :
              /\ \A i \in 3..8 : fin'[i][0][y] = fin[i][0][y]
              /\ \A i \in 0..2 :
                    fin'[i][0][y] =
                        RSub(RAdd(feq[i][0][y], fin[8 - i][0][y]), feq[8 - i][0][y])
              /\ Sum9(fin', 0, y) = rho[0][y]
              /\ Mom(fin', 0, 0, y) = RMul(rho[0][y], u[0][0][y])
              /\ u[0][0][y] = vel[0][0][y]

(* C8: in every iteration and for every row y, the inflow step imposes the *)
(* inlet velocity at column 0 and sets rho[0,y] to (sum of f over 3,4,5 +  *)
(* 2 * sum of f over 6,7,8) / (1 - u_x[0,y]); the inflow correction then   *)
(* replaces directions 0,1,2 by feq[i] + f[8-i] - feq[8-i], leaves         *)
(* directions 3..8 at column 0 as they were, and the corrected populations *)
(* at (0,y) sum to rho[0,y] with first x-moment rho[0,y]*u_x[0,y].         *)
C8_InflowClosure == [][C8_Step]_vars

C8_Witness ==
    /\ pc = "collision"
    /\ time >= 1
    /\ \E y \in Ys :
          /\ u[0][0][y] # R(0)
          /\ rho[0][y] # R(1)
          /\ Sum9(fin, 0, y) = rho[0][y]
          /\ \E i \in 0..2 : fin[i][0][y] # streaming(fout)[i][0][y]

----------------------------------------------------------------------------
(* C9 as stated: once the corrections of an iteration are applied, the six *)
(* directions they do not overwrite in each edge column (3..8 at x = 0,    *)
(* 0..5 at x = nx-1) hold values that wrapped in from the opposite edge    *)
(* column.                                                                 *)
C9_OtherSixWrapped ==
    (pc = "collision" /\ time >= 1) =>
        \A y \in Ys :
            /\ \A i \in col2 \cup col3 :
                  fin[i][0][y] = fout[i][nx - 1][(y - v[i][1]) % ny]
            /\ \A i \in col1 \cup col2 :
                  fin[i][nx - 1][y] = fout[i][0][(y - v[i][1]) % ny]

(* C9 as amended: streaming wraps across the left/right edges before the   *)
(* corrections run, and each correction overwrites exactly the three       *)
(* directions that wrapped in (0,1,2 at x = 0, from column nx-1; 6,7,8 at  *)
(* x = nx-1, from column 0); the other six directions of an edge column    *)
(* hold values streamed from that column or its interior neighbour.        *)
C9_WrappedThreeOverwritten ==
    /\ pc = "outflow" /\ time >= 1 =>
          \A y \in Ys :
              /\ \A i \in col1 : fin[i][0][y] = fout[i][nx - 1][(y - v[i][1]) % ny]
              /\ \A i \in col3 : fin[i][nx - 1][y] = fout[i][0][(y - v[i][1]) % ny]
    /\ pc = "collision" /\ time >= 1 =>
          \A y \in Ys :
              /\ \A i \in col1 :
                    fin[i][0][y] =
                        RSub(RAdd(feq[i][0][y], fin[8 - i][0][y]), feq[8 - i][0][y])
              /\ \A i \in col3 : fin[i][nx - 1][y] = fin[i][nx - 2][y]
              /\ \A i \in col2 : fin[i][0][y] = fout[i][0][(y - v[i][1]) % ny]
              /\ \A i \in col3 : fin[i][0][y] = fout[i][1][(y - v[i][1]) % ny]
              /\ \A i \in col2 :
                    fin[i][nx - 1][y] = fout[i][nx - 1][(y - v[i][1]) % ny]
              /\ \A i \in col1 :
                    fin[i][nx - 1][y] = fout[i][nx - 2][(y - v[i][1]) % ny]

C9_Witness ==
    /\ pc = "collision"
    /\ time >= 1
    /\ \E y \in Ys, i \in col1 :
          fin[i][0][y] # fout[i][nx - 1][(y - v[i][1]) % ny]
    /\ \E y \in Ys, i \in col3 :
          fin[i][nx - 1][y] # fout[i][0][(y - v[i][1]) % ny]
    /\ \E y \in Ys, i \in col3 :
          fin[i][0][y] # fout[i][nx - 1][(y - v[i][1]) % ny]

----------------------------------------------------------------------------
WrapEntries ==
    {<<i, nx - 1, y>> : i \in col1, y \in Ys} \cup {<<i, 0, y>> : i \in col3, y \in Ys}

OtherValues == {R(0), Frac(-7, 3), <<0, 0>>}

\* fo with the entries of S replaced by w.
Replaced(fo, S, w) ==
    [i \in Dirs |-> [x \in Xs |-> [y \in Ys |->
        IF <<i, x, y>> \in S THEN w ELSE fo[i][x][y]]]]

\* The next iteration, from the streaming of fo to the inflow correction.
upToInflowCorrection(fo, inlet) ==
    LET f1 == outflow(streaming(fo))
        m == macroscopic(f1)
        u1 == inflowVelocity(m.u, inlet)
        r1 == inflowDensity(m.rho, u1, f1)
        fe == equilibrium(r1, u1)
    IN  [fin |-> inflowCorrection(f1, fe), rho |-> r1, u |-> u1, feq |-> fe]

(* C10: with nx >= 3, a second run whose post-collision field differs from *)
(* this run's only in the values that wrap horizontally (directions 0,1,2  *)
(* at column nx-1, directions 6,7,8 at column 0) has, after the next       *)
(* iteration's inflow correction, the same fin, rho, u and feq, hence the  *)
(* same fout and reported fields from then on.                             *)
C10_WrapDoesNotInterfere ==
    (nx >= 3 /\ pc = "collision" /\ time >= 1) =>
        \A w \in OtherValues :
            \A S \in {{e} : e \in WrapEntries} \cup {WrapEntries} :
                upToInflowCorrection(Replaced(fout, S, w), vel)
                    = [fin |-> fin, rho |-> rho, u |-> u, feq |-> feq]

C10_Witness ==
    /\ nx >= 3
    /\ pc = "collision"
    /\ time >= 1
    /\ \A e \in WrapEntries : fout[e[1]][e[2]][e[3]] \notin OtherValues
    /\ \E e \in WrapEntries : fout[e[1]][e[2]][e[3]] # fout[8 - e[1]][e[2]][e[3]]
    /\ streaming(Replaced(fout, WrapEntries, R(0))) # streaming(fout)
    /\ \E x \in Xs, y \in Ys : obstacle[x][y]
    /\ \E x \in Xs, y \in Ys : ~obstacle[x][y]

====
